---- MODULE Spec2Model ----
(***************************************************************************)
(* LUNOS e2/eGO fan controller (custom_components/lunos/fan.py).           *)
(*                                                                         *)
(* The fan speed is encoded by the on/off pair of two relays W1 and W2.    *)
(* The model follows class LUNOSFan: its fields, its coroutines cut at     *)
(* their await points, and the relay switch service it calls.              *)
(*                                                                         *)
(* Time is counted in units of 100 ms (one DELAY_BETWEEN_FLIPS).           *)
(* _last_state_change is kept as the AGE of the timestamp, i.e. the value  *)
(* of time.time() - self._last_state_change, saturating at the largest     *)
(* delay the code ever compares it with; -1 stands for None.               *)
(***************************************************************************)
EXTENDS Integers, Sequences, FiniteSets, TLC

VARIABLES
    model_config,        \* self._model_config: the controller variant
    default_preset,      \* self._default_preset
    speed,               \* self._speed ("none" is None)
    last_state_change,   \* age of self._last_state_change (-1 is None)
    preset_mode,         \* self._preset_mode
    vent_mode,           \* self._attributes[ATTR_VENTILATION_MODE]
    relay,               \* the on/off state of the two switch entities
    found,               \* relays for which hass.states.get() returns a state
    task,                \* the coroutines in flight, one record per slot
    last_write,          \* age of the last acknowledged switch call (-1: none)
    requested,           \* speed of the last request made during a toggle sequence
    concurrent           \* whether the host issues overlapping service calls

vars == <<model_config, default_preset, speed, last_state_change, preset_mode,
          vent_mode, relay, found, task, last_write, requested, concurrent>>

-----------------------------------------------------------------------------
(* Bounds of the model *)

\* number of coroutine slots (operations that can be in flight together)
NumTasks == 2

\* the host makes a call this many 100 ms after the last change (besides
\* the calls it makes when one of the guards' windows ends)
CallGap == 20

(* Program constants, in units of 100 ms *)
DELAY_BETWEEN_FLIPS == 1
SPEED_CHANGE_DELAY_SECONDS == 40
MINIMUM_DELAY_BETWEEN_STATE_CHANGES == 150
UPDATE_DELAY == 10

Tasks == 1..NumTasks
Relays == {"W1", "W2"}
None == "none"

STATE_ON == "on"
STATE_OFF == "off"
SERVICE_TURN_ON == "turn_on"
SERVICE_TURN_OFF == "turn_off"
SERVICE_TOGGLE == "toggle"

VENTILATION_NORMAL == "normal"
VENTILATION_SUMMER == "summer"
PRESET_ECO == "eco"
PRESET_OFF == "off"
PRESET_SUMMER_VENT == "summer_vent"

\* LUNOS_CODING_CONFIG entries, reduced to the flags the fan logic reads
Variants ==
    [supports_off : BOOLEAN, supports_summer_vent : BOOLEAN]

\* the values the configuration schema admits for the default speed
DefaultSpeeds == {"off", "medium"}

\* percentages a caller may pass: inside 0..100, and outside
Percentages == {0, 33, 50, 100}
OutOfRange == {-1, 101}

\* preset names a caller may pass
PresetNames ==
    {"eco", "off", "low", "turbo", "summer_vent", "normal", "bogus"}

-----------------------------------------------------------------------------
(* Speed / relay codec *)

\* speed_presets: (name, percentage) sorted by percentage
speed_presets(cfg) ==
    IF cfg.supports_off
    THEN << <<"off", 0>>, <<"low", 33>>, <<"medium", 66>>, <<"high", 100>> >>
    ELSE << <<"low", 25>>, <<"medium", 50>>, <<"high", 75>>, <<"turbo", 100>> >>

SpeedNames(cfg) == {speed_presets(cfg)[i][1] : i \in 1..Len(speed_presets(cfg))}

\* speed_switch_states: speed -> [W1, W2], in the order of the dict
speed_switch_states(cfg) ==
    IF cfg.supports_off
    THEN << <<"off",    <<STATE_OFF, STATE_OFF>> >>,
            <<"low",    <<STATE_ON,  STATE_OFF>> >>,
            <<"medium", <<STATE_OFF, STATE_ON>> >>,
            <<"high",   <<STATE_ON,  STATE_ON>> >> >>
    ELSE << <<"low",    <<STATE_OFF, STATE_OFF>> >>,
            <<"medium", <<STATE_ON,  STATE_OFF>> >>,
            <<"high",   <<STATE_OFF, STATE_ON>> >>,
            <<"turbo",  <<STATE_ON,  STATE_ON>> >> >>

\* SPEED_SWITCH_STATES: the table async_set_speed indexes
SPEED_SWITCH_STATES(cfg) == speed_switch_states(cfg)

\* the states Home Assistant reports for a switch entity that it has
ObservedStates == {STATE_ON, STATE_OFF, "unavailable"}

\* table lookup; <<>> when the key is absent
Lookup(table, key) ==
    LET hits == {i \in 1..Len(table) : table[i][1] = key}
    IN  IF hits = {} THEN <<>> ELSE table[CHOOSE i \in hits : TRUE][2]

HasKey(table, key) == \E i \in 1..Len(table) : table[i][1] = key

\* speed_name_for_percentage: the first preset whose percentage is >= p
speed_name_for_percentage(cfg, percentage) ==
    LET t == speed_presets(cfg)
        hits == {i \in 1..Len(t) : percentage <= t[i][2]}
    IN  IF hits = {} THEN None
        ELSE t[CHOOSE i \in hits : \A j \in hits : i <= j][1]

determine_current_speed_swapped(cfg, rel, fnd) ==
    IF "W1" \notin fnd THEN None
    ELSE IF "W2" \notin fnd THEN None
    ELSE LET t == speed_switch_states(cfg)
             hits == {i \in 1..Len(t) : t[i][2] = <<rel["W2"], rel["W1"]>>}
         IN  IF hits = {} THEN None
             ELSE t[CHOOSE i \in hits : \A j \in hits : i <= j][1]

\* _determine_current_speed: probe W1/W2 and match the pair to a speed
determine_current_speed(cfg, rel, fnd) ==
    IF "W1" \notin fnd THEN None
    ELSE IF "W2" \notin fnd THEN None
    ELSE LET t == speed_switch_states(cfg)
             hits == {i \in 1..Len(t) : t[i][2] = <<rel["W1"], rel["W2"]>>}
         IN  IF hits = {} THEN None
             ELSE t[CHOOSE i \in hits : \A j \in hits : i <= j][1]

\* _init_vent_modes
vent_modes(cfg) ==
    {VENTILATION_NORMAL} \cup
    (IF cfg.supports_summer_vent THEN {PRESET_SUMMER_VENT} ELSE {})

\* _init_presets: the preset list of the unit
preset_modes(cfg) == {PRESET_ECO} \cup SpeedNames(cfg) \cup vent_modes(cfg)

\* preset_speeds(): the speed-preset table (name -> percentage)
preset_speeds(cfg) == speed_presets(cfg)

supports_summer_always(cfg) == TRUE

supports_summer_ventilation(cfg) == PRESET_SUMMER_VENT \in preset_modes(cfg)

-----------------------------------------------------------------------------
(* The synchronous part of the fan: a record F of the fields it changes.   *)
(* raised is TRUE once an exception has been raised, set once             *)
(* _update_speed has assigned the speed.                                   *)

Fields == [speed |-> speed, lsc |-> last_state_change,
           preset |-> preset_mode, raised |-> FALSE, set |-> FALSE]

update_speed_unchecked(F, s) == [F EXCEPT !.speed = s, !.lsc = 0, !.set = TRUE]

\* _update_speed
update_speed(F, s) ==
    IF s = None THEN F
    ELSE [F EXCEPT !.speed = s, !.lsc = 0, !.set = TRUE]

\* async_set_percentage
async_set_percentage(F, cfg, percentage) ==
    update_speed(F, speed_name_for_percentage(cfg, percentage))

async_set_preset_mode_eco(F, cfg, name) ==
    IF name \notin preset_modes(cfg) THEN [F EXCEPT !.preset = PRESET_ECO]
    ELSE IF name = PRESET_OFF THEN [F EXCEPT !.raised = TRUE]
    ELSE IF name = PRESET_ECO THEN [F EXCEPT !.preset = PRESET_ECO]
    ELSE IF HasKey(preset_speeds(cfg), name)
         THEN async_set_percentage(F, cfg, Lookup(preset_speeds(cfg), name))
    ELSE [F EXCEPT !.preset = PRESET_ECO]

\* the branches of async_set_preset_mode that never suspend.
\* PRESET_OFF awaits self.turn_off(): the class overrides async_turn_off
\* only, so this is the entity base class's turn_off, which raises
\* NotImplementedError
async_set_preset_mode(F, cfg, name) ==
    IF name \notin preset_modes(cfg) THEN F
    ELSE IF name = PRESET_OFF THEN [F EXCEPT !.raised = TRUE]
    ELSE IF name = PRESET_ECO THEN [F EXCEPT !.preset = PRESET_ECO]
    ELSE IF HasKey(preset_speeds(cfg), name)
         THEN async_set_percentage(F, cfg, Lookup(preset_speeds(cfg), name))
    ELSE [F EXCEPT !.preset = PRESET_ECO]

\* async_turn_on
async_turn_on(F, cfg, dflt, hasPct, percentage, preset) ==
    LET F1 == IF preset = None
              THEN async_set_preset_mode(F, cfg, dflt)
              ELSE F
    IN  IF F1.raised THEN F1
        ELSE IF hasPct /\ percentage # 0
             THEN async_set_percentage(F1, cfg, percentage)
             ELSE F1

-----------------------------------------------------------------------------
(* Coroutine slots *)

IdleTask ==
    [op |-> "none", routine |-> "none", pc |-> "idle", idx |-> 0,
     entity |-> "none", saved |-> None, timer |-> 0, cmds |-> <<>>,
     age0 |-> -1, waited |-> 0, name |-> "none", pct |-> 0,
     result |-> "none"]

InFlight(t) == task[t].pc # "idle"

\* the host makes its calls when the last change is this old: at once, inside
\* the window of the speed guard, at its end, and at the end of the window of
\* the summer ventilation guard (and when no change was ever recorded)
AgeMarks ==
    {CallGap, SPEED_CHANGE_DELAY_SECONDS, MINIMUM_DELAY_BETWEEN_STATE_CHANGES}

CallAges == {-1, 0} \cup AgeMarks


\* a new call goes to the lowest free slot; without overlap only when
\* nothing else is in flight
CanStart(t) ==
    /\ ~InFlight(t)
    /\ last_state_change \in CallAges
    /\ \A u \in Tasks : u < t => InFlight(u)
    /\ concurrent \/ \A u \in Tasks : ~InFlight(u)

\* cmds: the switch service calls the operation has made so far;
\* name, pct: the preset name or percentage it was called with
Begin(op) == [IdleTask EXCEPT !.op = op, !.result = "running"]

Finished(r, res) ==
    [r EXCEPT !.pc = "idle", !.timer = 0, !.idx = 0, !.age0 = -1, !.waited = 0,
              !.result = res]

\* how an operation ends: "ok", "raised" (an exception of the fan's own
\* code), "call_failed" (the switch service raised)
Outcome(F) == IF F.raised THEN "raised" ELSE "ok"

StoreFields(F) ==
    /\ speed' = F.speed
    /\ last_state_change' = F.lsc
    /\ preset_mode' = F.preset

\* a call that starts when nothing is in flight begins a new episode
Quiet ==
    requested' = IF \A u \in Tasks : ~InFlight(u) THEN None ELSE requested

\* a request that assigns the speed while a toggle sequence is in flight
Request(F) ==
    IF F.set /\ \E u \in Tasks : InFlight(u) /\ task[u].routine = "enable"
    THEN requested' = F.speed
    ELSE Quiet

Frame == UNCHANGED <<model_config, default_preset, concurrent>>

-----------------------------------------------------------------------------
\* the fan as __init__ leaves it
InitFan ==
    /\ model_config \in Variants
    /\ \E d \in DefaultSpeeds :
         default_preset = IF d \in preset_modes(model_config) THEN d ELSE PRESET_ECO
    /\ relay \in [Relays -> {STATE_ON, STATE_OFF}]
    /\ found \in SUBSET Relays
    /\ speed = determine_current_speed(model_config, relay, found)
    /\ last_state_change = IF speed = None THEN -1 ELSE 0
    /\ preset_mode = default_preset
    /\ vent_mode = VENTILATION_NORMAL
    /\ task = [t \in Tasks |-> IdleTask]
    /\ last_write = -1
    /\ requested = None

\* the host awaits every service call before it makes the next
Init == InitFan /\ concurrent = FALSE

\* the host makes service calls while earlier ones are suspended
InitOverlap == InitFan /\ concurrent = TRUE

-----------------------------------------------------------------------------
(* Calls that run to completion without suspending *)

SetPercentage_ResetsVent(t, percentage) ==
    /\ CanStart(t)
    /\ LET F == async_set_percentage(Fields, model_config, percentage)
       IN  /\ StoreFields(F)
           /\ Request(F)
           /\ task' = [task EXCEPT ![t] =
                  Finished([Begin("setPercentage") EXCEPT !.pct = percentage],
                           Outcome(F))]
    /\ vent_mode' = VENTILATION_NORMAL
    /\ UNCHANGED <<relay, found>>
    /\ UNCHANGED last_write
    /\ Frame

\* async_set_percentage(percentage), called by the host
SetPercentage(t, percentage) ==
    /\ CanStart(t)
    /\ LET F == async_set_percentage(Fields, model_config, percentage)
       IN  /\ StoreFields(F)
           /\ Request(F)
           /\ task' = [task EXCEPT ![t] =
                  Finished([Begin("setPercentage") EXCEPT !.pct = percentage],
                           Outcome(F))]
    /\ UNCHANGED <<vent_mode, relay, found>>
    /\ UNCHANGED last_write
    /\ Frame

\* async_turn_off: async_set_percentage(0)
TurnOff(t) ==
    /\ CanStart(t)
    /\ LET F == async_set_percentage(Fields, model_config, 0)
       IN  /\ StoreFields(F)
           /\ Request(F)
           /\ task' = [task EXCEPT ![t] = Finished(Begin("turnOff"), Outcome(F))]
    /\ UNCHANGED <<vent_mode, relay, found>>
    /\ UNCHANGED last_write
    /\ Frame

\* async_set_preset_mode(name) for every name but the summer ventilation
\* preset of a unit that has it (that branch suspends: see EnableSummer)
SetPresetMode(t, name) ==
    /\ CanStart(t)
    /\ ~(name = PRESET_SUMMER_VENT /\ name \in preset_modes(model_config))
    /\ LET F == async_set_preset_mode(Fields, model_config, name)
       IN  /\ StoreFields(F)
           /\ Request(F)
           /\ task' = [task EXCEPT ![t] =
                  Finished([Begin("setPresetMode") EXCEPT !.name = name],
                           Outcome(F))]
    /\ UNCHANGED <<vent_mode, relay, found>>
    /\ UNCHANGED last_write
    /\ Frame

\* async_turn_on(percentage, preset); hasPct = FALSE is percentage None
TurnOn(t, hasPct, percentage, preset) ==
    /\ CanStart(t)
    /\ LET F == async_turn_on(Fields, model_config, default_preset,
                              hasPct, percentage, preset)
       IN  /\ StoreFields(F)
           /\ Request(F)
           /\ task' = [task EXCEPT ![t] = Finished(Begin("turnOn"), Outcome(F))]
    /\ UNCHANGED <<vent_mode, relay, found>>
    /\ UNCHANGED last_write
    /\ Frame

\* async_clear_filter_reminder: the coroutine object of
\* toggle_relay_to_set_lunos_mode(W1) is created but never awaited, so none
\* of its body runs
ClearFilterReminder(t) ==
    /\ CanStart(t)
    /\ task' = [task EXCEPT ![t] = Finished(Begin("clearFilterReminder"), "ok")]
    /\ UNCHANGED <<speed, last_state_change, preset_mode, vent_mode, relay, found>>
    /\ UNCHANGED last_write
    /\ Quiet
    /\ Frame

-----------------------------------------------------------------------------
(* The relay switch service *)

MethodFor_Inverted(state) ==
    IF state = STATE_ON THEN SERVICE_TURN_OFF ELSE SERVICE_TURN_ON

\* set_relay_switch_state: the service that brings a relay to a state
MethodFor(state) == IF state = STATE_ON THEN SERVICE_TURN_ON ELSE SERVICE_TURN_OFF

\* what a switch service does to a relay
ApplyMethod(method, state) ==
    IF method = SERVICE_TURN_ON THEN STATE_ON
    ELSE IF method = SERVICE_TURN_OFF THEN STATE_OFF
    ELSE IF state = STATE_ON THEN STATE_OFF ELSE STATE_ON

\* call_switch_service up to its await: the service call is made
Call(r, method, entity) == [r EXCEPT !.cmds = Append(@, <<entity, method>>)]

LastCall(r) == r.cmds[Len(r.cmds)]

\* call_switch_service after its await: the relay has switched and the
\* time of the change is recorded
Acked(t) ==
    /\ relay' = [relay EXCEPT ![LastCall(task[t])[1]] =
                    ApplyMethod(LastCall(task[t])[2], @)]
    /\ last_state_change' = 0
    /\ last_write' = 0

CallFails_Retry(t) ==
    /\ task[t].pc \in {"tog_call", "ss_w1", "ss_w2", "off_t1", "off_t2"}
    /\ task' = [task EXCEPT ![t] = Call(@, LastCall(@)[2], LastCall(@)[1])]
    /\ UNCHANGED <<speed, last_state_change, preset_mode, vent_mode, relay, found>>
    /\ UNCHANGED last_write
    /\ UNCHANGED requested
    /\ Frame

\* the service call raises: the exception ends the operation
CallFails(t) ==
    /\ task[t].pc \in {"tog_call", "ss_w1", "ss_w2", "off_t1", "off_t2"}
    /\ task' = [task EXCEPT ![t] = Finished(@, "call_failed")]
    /\ UNCHANGED <<speed, last_state_change, preset_mode, vent_mode, relay, found>>
    /\ UNCHANGED last_write
    /\ UNCHANGED requested
    /\ Frame

-----------------------------------------------------------------------------
(* Timing guard *)

throttle_delay_none(required_delay, time_passed) == 0

throttle_delay_elapsed(required_delay, time_passed) ==
    IF time_passed < required_delay
    THEN time_passed
    ELSE 0

\* _throttle_state_changes: the time to sleep (0: return at once)
throttle_delay(required_delay, time_passed) ==
    IF time_passed < required_delay
    THEN required_delay - time_passed
    ELSE 0

\* asyncio.sleep(delay)
Sleep(r, pc, delay) == [r EXCEPT !.pc = pc, !.timer = delay]

\* the guard is entered: age0 is the time_passed it reads, waited the time
\* that has passed since
Guarded(r, time_passed) == [r EXCEPT !.age0 = time_passed, !.waited = 0]

Awake(t, pc) == task[t].pc = pc /\ task[t].timer = 0

-----------------------------------------------------------------------------
(* toggle_relay_to_set_lunos_mode and async_set_speed *)

toggle_methods ==
    <<SERVICE_TURN_OFF, SERVICE_TURN_ON, SERVICE_TURN_OFF,
      SERVICE_TURN_ON, SERVICE_TURN_OFF, SERVICE_TURN_ON>>

\* toggle_relay_to_set_lunos_mode up to its first await
StartToggle(r, entity) ==
    Call([r EXCEPT !.entity = entity, !.saved = speed, !.idx = 1, !.pc = "tog_call"],
         toggle_methods[1], entity)

\* async_turn_on_summer_ventilation, from the host or as the summer
\* ventilation branch of async_set_preset_mode
EnableSummer(t, viaPreset) ==
    /\ CanStart(t)
    /\ viaPreset => PRESET_SUMMER_VENT \in preset_modes(model_config)
    /\ LET r == [Begin(IF viaPreset THEN "setPresetMode" ELSE "enableSummer")
                   EXCEPT !.routine = "enable"]
           q == [r EXCEPT !.name = IF viaPreset THEN PRESET_SUMMER_VENT ELSE @]
       IN  IF ~supports_summer_ventilation(model_config)
           THEN task' = [task EXCEPT ![t] = Finished(q, "ok")]
           ELSE task' = [task EXCEPT ![t] = StartToggle(q, "W2")]
    /\ UNCHANGED <<speed, last_state_change, preset_mode, vent_mode, relay, found>>
    /\ UNCHANGED last_write
    /\ Quiet
    /\ Frame

\* a toggle call returns; sleep DELAY_BETWEEN_FLIPS
ToggleAck(t) ==
    /\ task[t].pc = "tog_call"
    /\ Acked(t)
    /\ task' = [task EXCEPT ![t] = Sleep(@, "tog_sleep", DELAY_BETWEEN_FLIPS)]
    /\ UNCHANGED <<speed, preset_mode, vent_mode, found>>
    /\ UNCHANGED requested
    /\ Frame

\* after the pause: the next toggle call
ToggleNext(t) ==
    /\ Awake(t, "tog_sleep")
    /\ task[t].idx < Len(toggle_methods)
    /\ task' = [task EXCEPT ![t] =
                  Call([@ EXCEPT !.idx = @ + 1, !.pc = "tog_call"],
                       toggle_methods[task[t].idx + 1], task[t].entity)]
    /\ UNCHANGED <<speed, last_state_change, preset_mode, vent_mode, relay, found>>
    /\ UNCHANGED last_write
    /\ UNCHANGED requested
    /\ Frame

set_speed_entry_skip(r, cfg, lsc) ==
    IF ~HasKey(SPEED_SWITCH_STATES(cfg), r.saved) THEN Finished(r, "raised")
    ELSE IF r.saved = speed THEN Finished(r, "ok")
    ELSE IF lsc < 0 THEN Finished(r, "raised")
    ELSE IF throttle_delay(SPEED_CHANGE_DELAY_SECONDS, lsc) > 0
         THEN Sleep(Guarded(r, lsc), "ss_throttle",
                    throttle_delay(SPEED_CHANGE_DELAY_SECONDS, lsc))
    ELSE Call([Guarded(r, lsc) EXCEPT !.pc = "ss_w1"],
              MethodFor(Lookup(SPEED_SWITCH_STATES(cfg), r.saved)[1]), "W1")

\* async_set_speed from its call to its first await: the table lookup
\* raises for a speed that is no key, the guard raises when no change was
\* ever recorded
set_speed_entry(r, cfg, lsc) ==
    IF ~HasKey(SPEED_SWITCH_STATES(cfg), r.saved) THEN Finished(r, "raised")
    ELSE IF lsc < 0 THEN Finished(r, "raised")
    ELSE IF throttle_delay(SPEED_CHANGE_DELAY_SECONDS, lsc) > 0
         THEN Sleep(Guarded(r, lsc), "ss_throttle",
                    throttle_delay(SPEED_CHANGE_DELAY_SECONDS, lsc))
    ELSE Call([Guarded(r, lsc) EXCEPT !.pc = "ss_w1"],
              MethodFor(Lookup(SPEED_SWITCH_STATES(cfg), r.saved)[1]), "W1")

\* after the last pause: restore the saved speed with async_set_speed
ToggleRestore(t) ==
    /\ Awake(t, "tog_sleep")
    /\ task[t].idx = Len(toggle_methods)
    /\ task' = [task EXCEPT ![t] = set_speed_entry(@, model_config, last_state_change)]
    /\ UNCHANGED <<speed, last_state_change, preset_mode, vent_mode, relay, found>>
    /\ UNCHANGED last_write
    /\ UNCHANGED requested
    /\ Frame

\* async_set_speed after the guard's sleep: the W1 call
SetSpeedW1(t) ==
    /\ Awake(t, "ss_throttle")
    /\ task' = [task EXCEPT ![t] =
          Call([@ EXCEPT !.pc = "ss_w1"],
               MethodFor(Lookup(SPEED_SWITCH_STATES(model_config), task[t].saved)[1]),
               "W1")]
    /\ UNCHANGED <<speed, last_state_change, preset_mode, vent_mode, relay, found>>
    /\ UNCHANGED last_write
    /\ UNCHANGED requested
    /\ Frame

SetSpeedW2_Unstamped(t) ==
    /\ task[t].pc = "ss_w1"
    /\ relay' = [relay EXCEPT ![LastCall(task[t])[1]] =
                    ApplyMethod(LastCall(task[t])[2], @)]
    /\ last_write' = 0
    /\ task' = [task EXCEPT ![t] =
          Call([@ EXCEPT !.pc = "ss_w2"],
               MethodFor(Lookup(SPEED_SWITCH_STATES(model_config), task[t].saved)[2]),
               "W2")]
    /\ UNCHANGED <<speed, last_state_change, preset_mode, vent_mode, found>>
    /\ UNCHANGED requested
    /\ Frame

\* the W1 call returns; the W2 call
SetSpeedW2(t) ==
    /\ task[t].pc = "ss_w1"
    /\ Acked(t)
    /\ task' = [task EXCEPT ![t] =
          Call([@ EXCEPT !.pc = "ss_w2"],
               MethodFor(Lookup(SPEED_SWITCH_STATES(model_config), task[t].saved)[2]),
               "W2")]
    /\ UNCHANGED <<speed, preset_mode, vent_mode, found>>
    /\ UNCHANGED requested
    /\ Frame

\* the W2 call returns; _update_speed, and back in
\* async_turn_on_summer_ventilation the preset and ventilation mode are set
SetSpeedDone(t) ==
    /\ task[t].pc = "ss_w2"
    /\ Acked(t)
    /\ speed' = task[t].saved
    /\ preset_mode' = PRESET_SUMMER_VENT
    /\ vent_mode' = VENTILATION_SUMMER
    /\ task' = [task EXCEPT ![t] = Finished(@, "ok")]
    /\ UNCHANGED found
    /\ UNCHANGED requested
    /\ Frame

-----------------------------------------------------------------------------
(* async_turn_off_summer_ventilation *)

DisableSummer(t) ==
    /\ CanStart(t)
    /\ LET r == [Begin("disableSummer") EXCEPT !.routine = "disable"]
       IN  task' = [task EXCEPT ![t] =
             IF ~supports_summer_ventilation(model_config) THEN Finished(r, "ok")
             ELSE IF last_state_change < 0 THEN Finished(r, "raised")
             ELSE IF throttle_delay(MINIMUM_DELAY_BETWEEN_STATE_CHANGES,
                                    last_state_change) > 0
                  THEN Sleep(Guarded(r, last_state_change), "off_throttle",
                             throttle_delay(MINIMUM_DELAY_BETWEEN_STATE_CHANGES,
                                            last_state_change))
             ELSE Call([Guarded(r, last_state_change) EXCEPT !.pc = "off_t1"],
                       SERVICE_TOGGLE, "W2")]
    /\ UNCHANGED <<speed, last_state_change, preset_mode, vent_mode, relay, found>>
    /\ UNCHANGED last_write
    /\ Quiet
    /\ Frame

\* after the guard's sleep: the first toggle call
DisableToggle1(t) ==
    /\ Awake(t, "off_throttle")
    /\ task' = [task EXCEPT ![t] = Call([@ EXCEPT !.pc = "off_t1"], SERVICE_TOGGLE, "W2")]
    /\ UNCHANGED <<speed, last_state_change, preset_mode, vent_mode, relay, found>>
    /\ UNCHANGED last_write
    /\ UNCHANGED requested
    /\ Frame

\* the first toggle returns; sleep DELAY_BETWEEN_FLIPS
DisableAck1(t) ==
    /\ task[t].pc = "off_t1"
    /\ Acked(t)
    /\ task' = [task EXCEPT ![t] = Sleep(@, "off_sleep", DELAY_BETWEEN_FLIPS)]
    /\ UNCHANGED <<speed, preset_mode, vent_mode, found>>
    /\ UNCHANGED requested
    /\ Frame

DisableToggle2_W1(t) ==
    /\ Awake(t, "off_sleep")
    /\ task' = [task EXCEPT ![t] = Call([@ EXCEPT !.pc = "off_t2"], SERVICE_TOGGLE, "W1")]
    /\ UNCHANGED <<speed, last_state_change, preset_mode, vent_mode, relay, found>>
    /\ UNCHANGED last_write
    /\ UNCHANGED requested
    /\ Frame

\* after the pause: the second toggle call
DisableToggle2(t) ==
    /\ Awake(t, "off_sleep")
    /\ task' = [task EXCEPT ![t] = Call([@ EXCEPT !.pc = "off_t2"], SERVICE_TOGGLE, "W2")]
    /\ UNCHANGED <<speed, last_state_change, preset_mode, vent_mode, relay, found>>
    /\ UNCHANGED last_write
    /\ UNCHANGED requested
    /\ Frame

\* the second toggle returns; the preset and ventilation mode are reset
DisableDone(t) ==
    /\ task[t].pc = "off_t2"
    /\ Acked(t)
    /\ preset_mode' = PRESET_ECO
    /\ vent_mode' = VENTILATION_NORMAL
    /\ task' = [task EXCEPT ![t] = Finished(@, "ok")]
    /\ UNCHANGED <<speed, found>>
    /\ UNCHANGED requested
    /\ Frame

-----------------------------------------------------------------------------
(* async_update *)

\* up to the sleep that lets pending switch changes settle
Update(t) ==
    /\ CanStart(t)
    /\ task' = [task EXCEPT ![t] = Sleep(Begin("update"), "upd_sleep", UPDATE_DELAY)]
    /\ UNCHANGED <<speed, last_state_change, preset_mode, vent_mode, relay, found>>
    /\ UNCHANGED last_write
    /\ Quiet
    /\ Frame

\* after the sleep: read the relays back
UpdateDone(t) ==
    /\ Awake(t, "upd_sleep")
    /\ LET current_speed == determine_current_speed(model_config, relay, found)
           F == IF current_speed # speed THEN update_speed(Fields, current_speed)
                ELSE Fields
       IN  StoreFields(F)
    /\ task' = [task EXCEPT ![t] = Finished(@, "ok")]
    /\ UNCHANGED <<vent_mode, relay, found>>
    /\ UNCHANGED last_write
    /\ UNCHANGED requested
    /\ Frame

-----------------------------------------------------------------------------
(* The environment *)

\* Home Assistant registers the state of a relay entity
RelayFound(r) ==
    /\ r \notin found
    /\ found' = found \cup {r}
    /\ UNCHANGED <<speed, last_state_change, preset_mode, vent_mode, relay, task>>
    /\ UNCHANGED last_write
    /\ UNCHANGED requested
    /\ Frame

AgeCap == MINIMUM_DELAY_BETWEEN_STATE_CHANGES

Min(a, b) == IF a < b THEN a ELSE b

\* the event loop runs every coroutine that can run before time passes
Runnable(t) == InFlight(t) /\ task[t].timer = 0

Timers == {task[t].timer : t \in {u \in Tasks : InFlight(u)}}

NextMark(age) ==
    LET later == {m \in AgeMarks : m > age}
    IN  CHOOSE m \in later : \A n \in later : m <= n

\* time passes: to the next wake-up or, when nothing is in flight, until the
\* last change is as old as the next mark; the record of a completed
\* operation is kept until then
Tick ==
    /\ \A t \in Tasks : ~Runnable(t)
    /\ \/ Timers # {}
       \/ last_state_change >= 0 /\ last_state_change < AgeCap
    /\ LET d == IF Timers = {} THEN NextMark(last_state_change) - last_state_change
                ELSE CHOOSE x \in Timers : \A y \in Timers : x <= y
       IN  /\ last_state_change' =
                 IF last_state_change < 0 THEN last_state_change
                 ELSE Min(last_state_change + d, AgeCap)
           /\ task' = [t \in Tasks |->
                 IF InFlight(t)
                 THEN [task[t] EXCEPT !.timer = @ - d,
                                      !.waited = IF task[t].age0 < 0 THEN @
                                                 ELSE Min(@ + d, AgeCap)]
                 ELSE IdleTask]
           /\ last_write' =
                 IF last_write < 0 THEN last_write
                 ELSE Min(last_write + d, SPEED_CHANGE_DELAY_SECONDS)
    /\ UNCHANGED <<speed, preset_mode, vent_mode, relay, found>>
    /\ UNCHANGED requested
    /\ Frame

-----------------------------------------------------------------------------
Next ==
    \/ \E t \in Tasks, p \in Percentages : SetPercentage(t, p)
    \/ \E t \in Tasks, p \in OutOfRange : SetPercentage(t, p)
    \/ \E t \in Tasks : TurnOff(t)
    \/ \E t \in Tasks, n \in PresetNames : SetPresetMode(t, n)
    \/ \E t \in Tasks, h \in BOOLEAN, p \in Percentages, n \in {None, "low"} :
          (h \/ p = 0) /\ TurnOn(t, h, p, n)
    \/ \E t \in Tasks : ClearFilterReminder(t)
    \/ \E t \in Tasks, v \in BOOLEAN : EnableSummer(t, v)
    \/ \E t \in Tasks : ToggleAck(t)
    \/ \E t \in Tasks : ToggleNext(t)
    \/ \E t \in Tasks : ToggleRestore(t)
    \/ \E t \in Tasks : SetSpeedW1(t)
    \/ \E t \in Tasks : SetSpeedW2(t)
    \/ \E t \in Tasks : SetSpeedDone(t)
    \/ \E t \in Tasks : DisableSummer(t)
    \/ \E t \in Tasks : DisableToggle1(t)
    \/ \E t \in Tasks : DisableAck1(t)
    \/ \E t \in Tasks : DisableToggle2(t)
    \/ \E t \in Tasks : DisableDone(t)
    \/ \E t \in Tasks : Update(t)
    \/ \E t \in Tasks : UpdateDone(t)
    \/ \E t \in Tasks : CallFails(t)
    \/ \E r \in Relays : RelayFound(r)
    \/ Tick

Spec == Init /\ [][Next]_vars

\* overlapping calls: speed requests and summer ventilation requests made
\* while another operation is suspended at one of its awaits
NextOverlap ==
    \/ \E t \in Tasks, p \in Percentages : SetPercentage(t, p)
    \/ \E t \in Tasks : EnableSummer(t, FALSE)
    \/ \E t \in Tasks : ToggleAck(t)
    \/ \E t \in Tasks : ToggleNext(t)
    \/ \E t \in Tasks : ToggleRestore(t)
    \/ \E t \in Tasks : SetSpeedW1(t)
    \/ \E t \in Tasks : SetSpeedW2(t)
    \/ \E t \in Tasks : SetSpeedDone(t)
    \/ \E r \in Relays : RelayFound(r)
    \/ Tick

SpecOverlap == InitOverlap /\ [][NextOverlap]_vars

TypeOK ==
    /\ speed \in SpeedNames(model_config) \cup {None}
    /\ last_state_change \in -1..AgeCap
    /\ vent_mode \in {VENTILATION_NORMAL, VENTILATION_SUMMER}

-----------------------------------------------------------------------------
(* Properties *)

\* relayPairFor: the pair the variant's table gives a speed (<<>>: no pair)
RelayPairFor(s) == Lookup(speed_switch_states(model_config), s)

RelayPair == <<relay["W1"], relay["W2"]>>

NoneInFlight == \A t \in Tasks : ~InFlight(t)

\* the two writes with which async_set_speed brings the relays to a speed
SpeedWrites(s) ==
    << <<"W1", MethodFor(RelayPairFor(s)[1])>>,
       <<"W2", MethodFor(RelayPairFor(s)[2])>> >>

\* the six calls of a toggle sequence on a relay
ToggleCalls(entity) == [i \in 1..Len(toggle_methods) |-> <<entity, toggle_methods[i]>>]

IsPrefix(a, b) == Len(a) <= Len(b) /\ \A i \in 1..Len(a) : a[i] = b[i]

\* a toggle sequence of slot t has ended with every switch call acknowledged
ToggleEnded(t) ==
    /\ task[t].routine = "enable"
    /\ task[t].entity # "none"
    /\ task[t].pc = "idle"
    /\ task[t].result \in {"ok", "raised"}

\* C1: a setPercentage(p) whose resolved speed differs from currentSpeed makes
\* the W1 and the W2 call for the pair of the resolved speed before it
\* completes, and currentSpeed is the resolved speed afterwards
C1_SetPercentageDrivesRelays ==
    [][\A t \in Tasks, p \in Percentages :
          LET s == speed_name_for_percentage(model_config, p)
          IN  (SetPercentage(t, p) /\ s # None /\ s # speed)
                 => /\ task'[t].cmds = SpeedWrites(s)
                    /\ RelayPair' = RelayPairFor(s)
                    /\ speed' = s]_vars

\* C2: whenever no operation is in flight and currentSpeed is known, the relay
\* pair for currentSpeed is the pair the (resolved) relays were last commanded
\* to or observed in
C2_SpeedMatchesRelays ==
    (NoneInFlight /\ found = Relays /\ speed # None)
        => RelayPairFor(speed) = RelayPair

\* C3: a clearFilterReminder() that has completed has made the six alternating
\* OFF/ON calls on W1, and then the calls that restore the saved speed
C3_ClearFilterToggles ==
    \A t \in Tasks :
        (task[t].op = "clearFilterReminder" /\ task[t].result = "ok")
            => /\ IsPrefix(ToggleCalls("W1"), task[t].cmds)
               /\ Len(task[t].cmds) > Len(toggle_methods)

C5_DisableWaitsModeClearDelay ==
    \A t \in Tasks :
        task[t].pc = "off_t1"
            => /\ task[t].age0 >= 0
               /\ task[t].waited >= MINIMUM_DELAY_BETWEEN_STATE_CHANGES - task[t].age0

C5_Witness ==
    \E t \in Tasks :
        /\ task[t].pc = "off_t1"
        /\ vent_mode = VENTILATION_SUMMER
        /\ task[t].age0 = CallGap
        /\ task[t].waited = MINIMUM_DELAY_BETWEEN_STATE_CHANGES - CallGap

\* a step of slot t inside async_turn_off_summer_ventilation
DisableStep(t) ==
    \/ DisableSummer(t)
    \/ DisableToggle1(t)
    \/ DisableAck1(t)
    \/ DisableToggle2(t)
    \/ DisableDone(t)
    \/ (task[t].routine = "disable" /\ CallFails(t))

\* C6: disableSummerVentilation() makes toggle calls on W2 only, two of them
\* when it completes on a unit with summer ventilation, never enters
\* async_set_speed, and no step of it changes currentSpeed
C6_DisableTogglesTwiceOnly ==
    /\ [](\A t \in Tasks :
            task[t].routine = "disable"
               => /\ IsPrefix(task[t].cmds,
                              << <<"W2", SERVICE_TOGGLE>>, <<"W2", SERVICE_TOGGLE>> >>)
                  /\ task[t].pc \notin {"ss_throttle", "ss_w1", "ss_w2"}
                  /\ (task[t].result = "ok"
                        /\ supports_summer_ventilation(model_config))
                       => Len(task[t].cmds) = 2)
    /\ [][\A t \in Tasks : DisableStep(t) => speed' = speed]_vars

C6_Witness ==
    \E t \in Tasks :
        /\ task[t].routine = "disable"
        /\ task[t].result = "ok"
        /\ Len(task[t].cmds) = 2
        /\ speed # None

\* a step of slot t inside async_turn_on_summer_ventilation
EnableStep(t) ==
    \/ EnableSummer(t, TRUE)
    \/ EnableSummer(t, FALSE)
    \/ ToggleAck(t)
    \/ ToggleNext(t)
    \/ ToggleRestore(t)
    \/ SetSpeedW1(t)
    \/ SetSpeedW2(t)
    \/ SetSpeedDone(t)
    \/ (task[t].routine = "enable" /\ CallFails(t))

\* C7: the ventilation mode is NORMAL or SUMMER and starts NORMAL; it goes
\* from NORMAL to SUMMER only in a step of enableSummerVentilation and from
\* SUMMER to NORMAL only in a step of disableSummerVentilation, so no step of
\* another operation changes it
C7_VentilationModeMachine ==
    /\ vent_mode = VENTILATION_NORMAL
    /\ [](vent_mode \in {VENTILATION_NORMAL, VENTILATION_SUMMER})
    /\ [][vent_mode' # vent_mode
            => \/ /\ vent_mode' = VENTILATION_SUMMER
                  /\ \E t \in Tasks : EnableStep(t)
               \/ /\ vent_mode' = VENTILATION_NORMAL
                  /\ \E t \in Tasks : DisableStep(t)]_vars

C7_Witness ==
    \E t \in Tasks :
        /\ vent_mode = VENTILATION_SUMMER
        /\ task[t].op = "setPercentage"
        /\ task[t].result = "ok"
        /\ speed = "high"

\* C8: on a unit without summer ventilation, enableSummerVentilation() and
\* disableSummerVentilation() make no switch call and change neither the
\* ventilation mode, the preset marker, currentSpeed nor the time of the last
\* change; the ventilation mode is never SUMMER there
C8_UnsupportedSummerIsNoOp ==
    /\ [](~model_config.supports_summer_vent
            => /\ vent_mode = VENTILATION_NORMAL
               /\ \A t \in Tasks :
                     task[t].op \in {"enableSummer", "disableSummer"}
                        => task[t].cmds = <<>> /\ task[t].pc = "idle")
    /\ [][\A t \in Tasks :
            (~model_config.supports_summer_vent
                /\ (EnableSummer(t, FALSE) \/ DisableSummer(t)))
               => /\ UNCHANGED <<vent_mode, preset_mode, speed,
                                 last_state_change, relay>>
                  /\ task'[t].result = "ok"]_vars

C8_Witness ==
    \E t \in Tasks :
        /\ ~model_config.supports_summer_vent
        /\ task[t].op = "enableSummer"
        /\ task[t].result = "ok"
        /\ preset_mode # PRESET_ECO
        /\ speed # None

\* C9 as stated: async_set_speed makes no relay write when the pair of its
\* target speed is the pair of currentSpeed
C9_SetSpeedSkipsEqualPair ==
    \A t \in Tasks :
        task[t].pc \in {"ss_w1", "ss_w2"}
            => RelayPairFor(task[t].saved) # RelayPairFor(speed)

\* C9 amended: async_set_speed makes its W1 and its W2 write for every target
\* speed of the table, also when the pair of the target is the pair of
\* currentSpeed: the restoring call of a toggle sequence, whose target is
\* currentSpeed, writes both relays
C9_SetSpeedAlwaysWrites ==
    \A t \in Tasks :
        LET n == Len(task[t].cmds)
            Write(c, r) == c[1] = r /\ c[2] \in {SERVICE_TURN_ON, SERVICE_TURN_OFF}
        IN  /\ task[t].pc \in {"ss_throttle", "ss_w1", "ss_w2"}
                  => task[t].saved = speed
            /\ task[t].pc = "ss_w1" => Write(task[t].cmds[n], "W1")
            /\ task[t].pc = "ss_w2"
                  => Write(task[t].cmds[n - 1], "W1") /\ Write(task[t].cmds[n], "W2")
            /\ (ToggleEnded(t) /\ task[t].result = "ok")
                  => /\ n = Len(toggle_methods) + 2
                     /\ Write(task[t].cmds[n - 1], "W1")
                     /\ Write(task[t].cmds[n], "W2")

C9_Witness ==
    \E t \in Tasks :
        /\ task[t].pc = "ss_w2"
        /\ task[t].saved = speed
        /\ RelayPairFor(task[t].saved) = RelayPairFor(speed)

\* C10 as stated: setPresetMode(name) with a name that is no preset of the
\* unit makes no switch call, leaves currentSpeed, and sets the preset marker
\* to ECO
C10_UnknownPresetFallsBackToEco ==
    [][\A t \in Tasks, n \in PresetNames \ preset_modes(model_config) :
          SetPresetMode(t, n)
             => /\ task'[t].cmds = <<>>
                /\ speed' = speed
                /\ preset_mode' = PRESET_ECO]_vars

\* C10 amended: setPresetMode(name) with a name that is no preset of the unit
\* makes no switch call and leaves currentSpeed and the preset marker as they
\* were
C10_UnknownPresetIsIgnored ==
    [][\A t \in Tasks, n \in PresetNames \ preset_modes(model_config) :
          SetPresetMode(t, n)
             => /\ task'[t].cmds = <<>>
                /\ task'[t].result = "ok"
                /\ UNCHANGED <<speed, preset_mode, relay, vent_mode>>]_vars

C10_Witness ==
    \E t \in Tasks :
        /\ task[t].op = "setPresetMode"
        /\ task[t].name \notin preset_modes(model_config)
        /\ task[t].result = "ok"
        /\ preset_mode # PRESET_ECO
        /\ speed # None

\* C11: on a unit without OFF, setPresetMode("off") completes with
\* currentSpeed LOW (it dispatches to turnOff(), i.e. setPercentage(0))
C11_PresetOffResolvesToLow ==
    [][\A t \in Tasks :
          (~model_config.supports_off /\ SetPresetMode(t, PRESET_OFF))
             => /\ task'[t].result = "ok"
                /\ speed' = "low"]_vars

\* C12: turnOn(p, no preset) applies the default preset and then, for every
\* given percentage p in 0..100 (0 too), the percentage: it completes with
\* currentSpeed the speed of p
C12_TurnOnAppliesPercentageLast ==
    [][\A t \in Tasks, p \in Percentages :
          TurnOn(t, TRUE, p, None)
             => /\ task'[t].result = "ok"
                /\ speed' = speed_name_for_percentage(model_config, p)]_vars

\* C13: a pair with a state that is neither on nor off matches no speed; the
\* readback step of a refresh completes without error and makes no switch
\* call, leaves currentSpeed as it was when a relay is unresolved, and sets it
\* to the speed of the observed pair when both are resolved
C13_RefreshKeepsSpeedWhenUnresolved ==
    /\ [](\A a, b \in ObservedStates :
            ({a, b} \ {STATE_ON, STATE_OFF} # {})
               => determine_current_speed(model_config,
                     [r \in Relays |-> IF r = "W1" THEN a ELSE b], Relays) = None)
    /\ [][\A t \in Tasks :
            UpdateDone(t)
               => /\ task'[t].result = "ok"
                  /\ task'[t].cmds = <<>>
                  /\ relay' = relay
                  /\ found # Relays => speed' = speed
                  /\ found = Relays
                       => /\ speed' # None
                          /\ RelayPairFor(speed') = RelayPair]_vars

C13_Witness ==
    \E t \in Tasks :
        /\ task[t].op = "update"
        /\ task[t].result = "ok"
        /\ found # Relays
        /\ speed # None

C15_OutOfRangeFails ==
    [][\A t \in Tasks :
          /\ \A p \in Percentages :
                SetPercentage(t, p)
                   => LET at_or_above ==
                             {i \in 1..Len(speed_presets(model_config)) :
                                 speed_presets(model_config)[i][2] >= p}
                      IN  \E i \in at_or_above :
                             /\ \A j \in at_or_above :
                                   speed_presets(model_config)[i][2]
                                      <= speed_presets(model_config)[j][2]
                             /\ speed' = speed_presets(model_config)[i][1]
          /\ \A p \in OutOfRange :
                SetPercentage(t, p)
                   => /\ speed_name_for_percentage(model_config, p) = None
                      /\ UNCHANGED <<speed, relay>>]_vars

\* C16: when one of the six calls of a toggle sequence fails, the operation
\* ends there with the failure: the call is not repeated, no further call is
\* made (the restoring writes are skipped), and neither the ventilation
\* mode, the preset marker nor currentSpeed changes
C16_ToggleFailurePropagates ==
    /\ [](\A t \in Tasks :
            task[t].result = "call_failed" => task[t].pc = "idle")
    /\ [][\A t \in Tasks :
            /\ (task[t].pc = "tog_call" /\ CallFails(t))
                  => /\ task'[t].result = "call_failed"
                     /\ task'[t].pc = "idle"
                     /\ task'[t].cmds = task[t].cmds
                     /\ Len(task'[t].cmds) <= Len(toggle_methods)
                     /\ UNCHANGED <<vent_mode, preset_mode, speed, relay>>
            /\ (task[t].result = "call_failed" /\ task'[t].result = "call_failed")
                  => task'[t].cmds = task[t].cmds]_vars

C16_Witness ==
    \E t \in Tasks :
        /\ task[t].routine = "enable"
        /\ task[t].result = "call_failed"
        /\ Len(task[t].cmds) = 3
        /\ vent_mode = VENTILATION_NORMAL

\* C17: a guard that read a time_passed below its delay d has suspended its
\* caller for at least d - time_passed when the caller's next call is made,
\* and one that read d or more has not suspended it; so the first write of
\* async_set_speed (W1) is made no earlier than SPEED_CHANGE_DELAY_SECONDS
\* after the last acknowledged switch call
C17_ThrottleWaitsOutRemainder ==
    \A t \in Tasks :
        /\ task[t].pc \in {"ss_w1", "off_t1"}
              => LET d == IF task[t].pc = "ss_w1"
                          THEN SPEED_CHANGE_DELAY_SECONDS
                          ELSE MINIMUM_DELAY_BETWEEN_STATE_CHANGES
                 IN  /\ task[t].age0 >= 0
                     /\ task[t].age0 < d => task[t].waited >= d - task[t].age0
                     /\ task[t].age0 >= d => task[t].waited = 0
        /\ task[t].pc = "ss_w1" => last_write >= SPEED_CHANGE_DELAY_SECONDS

C17_Witness ==
    \E t \in Tasks :
        /\ task[t].pc = "ss_w1"
        /\ task[t].age0 = DELAY_BETWEEN_FLIPS
        /\ task[t].waited = SPEED_CHANGE_DELAY_SECONDS - DELAY_BETWEEN_FLIPS
        /\ last_write = SPEED_CHANGE_DELAY_SECONDS

C19_UnknownSpeedIsIgnored ==
    \A t \in Tasks :
        (ToggleEnded(t) /\ task[t].saved = None)
            => /\ task[t].result = "ok"
               /\ task[t].cmds = ToggleCalls(task[t].entity)
               /\ speed = None

\* C20: whatever the interleaving of the operations in flight, the first
\* write of async_set_speed (W1) is made no earlier than
\* SPEED_CHANGE_DELAY_SECONDS after the last switch call acknowledged for any
\* operation
C20_SetSpeedWriteOutsideWindow ==
    \A t \in Tasks :
        task[t].pc = "ss_w1" => last_write >= SPEED_CHANGE_DELAY_SECONDS

\* C21: when a speed request has completed while a toggle sequence was in
\* flight, then once every operation in flight has completed currentSpeed is
\* the speed that request selected, not the speed the sequence saved
C21_NoLostUpdate ==
    (NoneInFlight /\ requested # None) => speed = requested

\* C22: the guard is never entered before a time of the last change has been
\* recorded: a disableSummerVentilation() on a unit with summer ventilation
\* whose switch calls succeed passes its guard and completes with its two
\* toggle calls, also when no readback or write has happened before
C22_GuardHasTimestamp ==
    \A t \in Tasks :
        /\ task[t].pc \in {"off_throttle", "off_t1", "ss_throttle", "ss_w1"}
              => task[t].age0 >= 0
        /\ (/\ task[t].routine = "disable"
            /\ supports_summer_ventilation(model_config)
            /\ task[t].pc = "idle"
            /\ task[t].result # "call_failed")
              => /\ task[t].result = "ok"
                 /\ Len(task[t].cmds) = 2

====
